---- MODULE Spec2Model ----
(***************************************************************************)
(* myring: the SPSC ring of myring.c (kernel producer, control ioctls)     *)
(* and user.c (consumer loop), as a state machine.                          *)
(*                                                                          *)
(* Machine words.  head, tail, size, lost_in_drop, the stats and the       *)
(* locals used/free/need/pos are uint64_t, pct/hi_pct/lo_pct/len are       *)
(* uint32_t.  A word is represented by the integer congruent to it that    *)
(* lies nearest to 0 (its two's-complement reading): +, - and * 100 on     *)
(* representatives are the machine operations, an unsigned division by a   *)
(* power of two followed by the (uint32_t) cast is the floor division of   *)
(* the representative, and the unsigned comparisons are ULt/ULe/UGe below. *)
(***************************************************************************)
EXTENDS Integers, Sequences, FiniteSets, TLC

(* ---------------------------------------------------------------- bounds *)
\* log2 of the ring of the interleaved specifications (module parameter ring_order).
RingOrder == 6
\* log2 of the ring of the serialized watermark specification.
BigRingOrder == 11
\* myring_push_packet calls per behaviour.
MaxPush == 5
\* The eventfd counter is kept up to this value (the consumer discards what it reads).
EfdCap == 2

(* ------------------------------------------------------------- constants *)
REC_TYPE_PKT == 1
REC_TYPE_DROP == 65535
CTRL_FLAG_DROPPING == 1
\* sizeof(struct myring_rec_hdr), packed: u16 u16 u32 u64
HdrSize == 16
\* sizeof(struct myring_rec_drop), packed: u32 u64 u64
DropSize == 20
\* watermarks written by myring_init
\* rate_hz, the module parameter's default
RateHz == 2000
InitHiPct == 50
InitLoPct == 30

\* Payload lengths offered to myring_push_packet in the interleaved specifications:
\* 16 + 2 < 36 (shorter than a DROP record) and 16 + 20 = 36.
PktLens == {2, 20}
\* ... and in the serialized watermark specification: 16 + 1008 is half the ring.
SeqPktLens == {2, 1008}
\* Watermark pairs <<hi, lo>> the control surface accepts, as configured before a run.
WmPairs == {<<50, 30>>, <<50, 50>>, <<0, 0>>, <<100, 50>>}

(* ------------------------------------------------------------ arithmetic *)
Min(a, b) == IF a < b THEN a ELSE b

Pow2(n) == 2 ^ n

\* a < b on unsigned words given by their representatives
ULt(a, b) == IF (a < 0) = (b < 0) THEN a < b ELSE a >= 0
ULe(a, b) == ~ULt(b, a)
UGt(a, b) == ULt(b, a)
UGe(a, b) == ~ULt(a, b)

\* (uint32_t)v of a uint64_t: the low 32 bits, which have the representative of v
\* itself for every word within 2^31 of 0
CastU32(v) == v

\* little-endian bytes of a word, n bytes
RECURSIVE LEBytes(_, _)
LEBytes(v, n) == IF n = 0 THEN << >> ELSE <<v % 256>> \o LEBytes(v \div 256, n - 1)

\* Every length of 2^30 or more is read as 2^30: 16 + len then exceeds every
\* cursor of a bounded run, which is all the consumer and the ioctl compare it with.
HugeLen == 64 * 16777216

\* the __u16 and __u32 a packed little-endian field holds
LEU16(b) == b[1] + 256 * b[2]
LEU32(b) == IF b[4] >= 64 THEN HugeLen
            ELSE b[1] + 256 * b[2] + 65536 * b[3] + 16777216 * b[4]

(* -------------------------------------------------------------- the state *)
VARIABLES
  ctrl,   \* struct myring_ctrl: head tail size hi_pct lo_pct flags drop_start_ns lost_in_drop
  dev,    \* struct myring_dev: evt above_hi records bytes drops seq_number
  data,   \* the data region, byte offset -> byte
  efd,    \* counter of the consumer's eventfd
  now,    \* ktime_get_ns()
  prod,   \* the producer's position in myring_push_packet and its locals
  cons,   \* the consumer's position in main() and its locals
  ghost   \* history: what was committed, what was decoded, what the last step signalled

vars == <<ctrl, dev, data, efd, now, prod, cons, ghost>>

(* ---------------------------------------------------------- ring helpers *)
rb_used(c) == c.head - c.tail

rb_free(c) == c.size - rb_used(c)

rb_pct(used, size) == IF size = 0 THEN 0 ELSE (used * 100) \div size

HasFlag(flags, bit) == (flags \div bit) % 2 = 1
SetFlag(flags, bit) == IF HasFlag(flags, bit) THEN flags ELSE flags + bit
ClearFlag(flags, bit) == IF HasFlag(flags, bit) THEN flags - bit ELSE flags

\* myring_reserve with the fill level taken from the masked cursors, which
\* cannot tell a full ring from an empty one
myring_reserve_Masked(c, need) ==
  LET free == c.size - ((c.head - c.tail) % c.size)
  IN  IF ULt(free, need) THEN <<FALSE, 0>> ELSE <<TRUE, c.head>>

\* myring_reserve that fails when the free space equals the need
myring_reserve_OffByOne(c, need) ==
  LET free == c.size - (c.head - c.tail)
  IN  IF ULe(free, need) THEN <<FALSE, 0>> ELSE <<TRUE, c.head>>

\* myring_reserve: <<ok, pos>>
myring_reserve(c, need) ==
  LET free == c.size - (c.head - c.tail)
  IN  IF ULt(free, need) THEN <<FALSE, 0>> ELSE <<TRUE, c.head>>

\* myring_write_bytes without its second memcpy: the bytes past the end of the
\* region are not written
myring_write_bytes_NoWrap(dt, size, pos, src, len) ==
  LET off == pos % size
      first == Min(len, size - off)
  IN  [i \in DOMAIN dt |->
         IF off <= i /\ i < off + first THEN src[i - off + 1] ELSE dt[i]]

\* myring_write_bytes whose first memcpy copies one byte too many
myring_write_bytes_Spill(dt, size, pos, src, len) ==
  LET off == pos % size
      first == Min(len, size - off)
  IN  [i \in DOMAIN dt |->
         IF i < len - first THEN src[first + i + 1]
         ELSE IF off <= i /\ i < off + first THEN src[i - off + 1]
         ELSE IF i = off + first THEN 7
         ELSE dt[i]]

\* myring_write_bytes: the data region after copying src[1..len] to cursor pos
myring_write_bytes(dt, size, pos, src, len) ==
  LET off == pos % size        \* pos & (size - 1), size a power of two
      first == Min(len, size - off)
  IN  [i \in DOMAIN dt |->
         IF i < len - first THEN src[first + i + 1]
         ELSE IF off <= i /\ i < off + first THEN src[i - off + 1]
         ELSE dt[i]]

\* the record header as laid out in memory
HdrBytes(type, flags, len, ts_ns) ==
  LEBytes(type, 2) \o LEBytes(flags, 2) \o LEBytes(len, 4) \o LEBytes(ts_ns, 8)

\* struct myring_rec_drop as laid out in memory; lost is (uint32_t)lost_in_drop
DropBytes(lost, start_ns, end_ns) ==
  LEBytes(lost, 4) \o LEBytes(start_ns, 8) \o LEBytes(end_ns, 8)

\* the byte pattern the synthetic producer fills a buffer with: (uint8_t)(seq + i)
PayloadOf(seq, len) == [i \in 1 .. len |-> (seq + i - 1) % 256]

\* myring_on_full that stamps drop_start_ns at every failure
myring_on_full_Restamp(c, t) ==
  LET c1 == IF ~HasFlag(c.flags, CTRL_FLAG_DROPPING)
            THEN [c EXCEPT !.flags = SetFlag(c.flags, CTRL_FLAG_DROPPING),
                           !.lost_in_drop = 0]
            ELSE c
  IN  [c1 EXCEPT !.lost_in_drop = c1.lost_in_drop + 1, !.drop_start_ns = t]

\* myring_on_full that does not restart lost_in_drop when a burst begins
myring_on_full_NoRestart(c, t) ==
  LET c1 == IF ~HasFlag(c.flags, CTRL_FLAG_DROPPING)
            THEN [c EXCEPT !.flags = SetFlag(c.flags, CTRL_FLAG_DROPPING),
                           !.drop_start_ns = t]
            ELSE c
  IN  [c1 EXCEPT !.lost_in_drop = c1.lost_in_drop + 1]

\* myring_on_full
myring_on_full(c, t) ==
  LET c1 == IF ~HasFlag(c.flags, CTRL_FLAG_DROPPING)
            THEN [c EXCEPT !.flags = SetFlag(c.flags, CTRL_FLAG_DROPPING),
                           !.drop_start_ns = t,
                           !.lost_in_drop = 0]
            ELSE c
  IN  [c1 EXCEPT !.lost_in_drop = c1.lost_in_drop + 1]

\* myring_signal: the eventfd counter after the call
myring_signal(d, counter) ==
  IF d.evt THEN Min(counter + 1, EfdCap) ELSE counter

\* myring_maybe_notify: <<above_hi after, signalled, cleared>>
myring_maybe_notify(d, c) ==
  LET used == rb_used(c)
      pct == rb_pct(used, c.size)
  IN  IF ~d.above_hi /\ UGe(pct, c.hi_pct) THEN <<TRUE, TRUE, FALSE>>
      ELSE IF d.above_hi /\ ULe(pct, c.lo_pct) THEN <<FALSE, FALSE, TRUE>>
      ELSE <<d.above_hi, FALSE, FALSE>>


\* the consumer's copy without its second memcpy: the bytes past the first span
\* are whatever the buffer held (zero here)
RingRead_NoWrap(dt, size, pos, len) ==
  LET off == pos % size
      first == Min(size - off, len)
  IN  [i \in 1 .. len |-> IF i <= first THEN dt[off + i - 1] ELSE 0]

\* the len bytes at cursor pos, read in two spans as the consumer reads them
RingRead(dt, size, pos, len) ==
  LET off == pos % size        \* tail & (size - 1)
      first == Min(size - off, len)
  IN  [i \in 1 .. len |-> IF i <= first THEN dt[off + i - 1] ELSE dt[i - first - 1]]

(* ------------------------------------------------------------------ init *)
\* myring_init: memset of the device, zeroed region, head = tail = 0, 50/30
InitCtrl(order) ==
  [head |-> 0, tail |-> 0, size |-> Pow2(order),
   hi_pct |-> InitHiPct, lo_pct |-> InitLoPct,
   flags |-> 0, drop_start_ns |-> 0, lost_in_drop |-> 0]

InitDev ==
  [evt |-> FALSE, above_hi |-> FALSE, records |-> 0, bytes |-> 0, drops |-> 0,
   seq_number |-> 0]

InitProd == [pc |-> "idle", len |-> 0, payload |-> << >>, pos |-> 0, ts |-> 0]

InitCons == [pc |-> "start", head |-> 0, tail |-> 0, reclen |-> 0]

InitGhost ==
  [committed |-> << >>,   \* records the producer committed, in order
   seen |-> << >>,        \* records the consumer dispatched, in order
   burst |-> 0,           \* failed pushes since the last committed PKT
   sig |-> "none",        \* who called myring_signal in the last step
   lastClear |-> "init",  \* which release last cleared above_hi
   ioc |-> <<"none", "none">>]  \* the ioctl the last step made and what it returned

InitWith(order) ==
  /\ ctrl = InitCtrl(order)
  /\ dev = InitDev
  /\ data = [i \in 0 .. Pow2(order) - 1 |-> 0]
  /\ efd = 0
  /\ now = 0
  /\ prod = InitProd
  /\ cons = InitCons
  /\ ghost = InitGhost

Init == InitWith(RingOrder)

(* -------------------------------------------------------------- producer *)
\* the ghost after a step that calls neither myring_signal nor an ioctl
Quiet(g) == [g EXCEPT !.sig = "none", !.ioc = <<"none", "none">>]

\* a push that calls myring_signal when its reservation is refused
PushBegin_Signals(len) ==
  /\ prod.pc = "idle"
  /\ dev.seq_number < MaxPush
  /\ LET seq == dev.seq_number + 1
         t == now + 1
         need == HdrSize + len
         r == myring_reserve(ctrl, need)
     IN  /\ now' = t
         /\ IF ~r[1]
            THEN /\ ctrl' = myring_on_full(ctrl, t)
                 /\ dev' = [dev EXCEPT !.seq_number = seq, !.drops = dev.drops + 1]
                 /\ prod' = prod
                 /\ efd' = myring_signal(dev, efd)
                 /\ ghost' = [Quiet(ghost) EXCEPT !.burst = ghost.burst + 1, !.sig = "push"]
            ELSE /\ ctrl' = ctrl
                 /\ dev' = [dev EXCEPT !.seq_number = seq]
                 /\ prod' = [pc |-> "flush", len |-> len, payload |-> PayloadOf(seq, len),
                             pos |-> r[2], ts |-> t]
                 /\ efd' = efd
                 /\ ghost' = Quiet(ghost)
  /\ UNCHANGED <<data, cons>>

\* myring_push_packet up to the reservation (lines 194-220), called as the
\* synthetic producer calls it: a fresh sequence number and clock reading.
PushBegin(len) ==
  /\ prod.pc = "idle"
  /\ dev.seq_number < MaxPush
  /\ LET seq == dev.seq_number + 1
         t == now + 1
         need == HdrSize + len
         r == myring_reserve(ctrl, need)
     IN  /\ now' = t
         /\ IF ~r[1]
            THEN /\ ctrl' = myring_on_full(ctrl, t)
                 /\ dev' = [dev EXCEPT !.seq_number = seq, !.drops = dev.drops + 1]
                 /\ prod' = prod
                 /\ ghost' = [Quiet(ghost) EXCEPT !.burst = ghost.burst + 1]
            ELSE /\ ctrl' = ctrl
                 /\ dev' = [dev EXCEPT !.seq_number = seq]
                 /\ prod' = [pc |-> "flush", len |-> len, payload |-> PayloadOf(seq, len),
                             pos |-> r[2], ts |-> t]
                 /\ ghost' = Quiet(ghost)
  /\ UNCHANGED <<data, efd, cons>>

\* myring_flush_drop_record that waits for room for the DROP record instead of
\* giving up
PushFlush_Waits ==
  /\ prod.pc = "flush"
  /\ HasFlag(ctrl.flags, CTRL_FLAG_DROPPING) => myring_reserve(ctrl, HdrSize + DropSize)[1]
  /\ prod' = [prod EXCEPT !.pc = "write"]
  /\ IF ~HasFlag(ctrl.flags, CTRL_FLAG_DROPPING)
     THEN /\ UNCHANGED <<ctrl, dev, data>>
          /\ ghost' = Quiet(ghost)
     ELSE LET need == HdrSize + DropSize
              lost == CastU32(ctrl.lost_in_drop)
              hdr == HdrBytes(REC_TYPE_DROP, 0, DropSize, now)
              drop == DropBytes(lost, ctrl.drop_start_ns, now)
              pos == ctrl.head
              d1 == myring_write_bytes(data, ctrl.size, pos, hdr, HdrSize)
          IN  /\ data' = myring_write_bytes(d1, ctrl.size, pos + HdrSize, drop, DropSize)
              /\ ctrl' = [ctrl EXCEPT !.head = pos + need,
                                      !.flags = ClearFlag(ctrl.flags, CTRL_FLAG_DROPPING)]
              /\ dev' = [dev EXCEPT !.records = dev.records + 1,
                                    !.bytes = dev.bytes + need]
              /\ ghost' = [Quiet(ghost) EXCEPT !.committed =
                   Append(ghost.committed,
                          [type |-> REC_TYPE_DROP, pos |-> pos, raw |-> hdr \o drop,
                           lost |-> lost, burst |-> ghost.burst])]
  /\ UNCHANGED <<efd, now, cons>>

\* myring_flush_drop_record (lines 164-191), called at line 225
PushFlush ==
  /\ prod.pc = "flush"
  /\ prod' = [prod EXCEPT !.pc = "write"]
  /\ IF ~HasFlag(ctrl.flags, CTRL_FLAG_DROPPING)
     THEN /\ UNCHANGED <<ctrl, dev, data>>
          /\ ghost' = Quiet(ghost)
     ELSE LET need == HdrSize + DropSize
              lost == CastU32(ctrl.lost_in_drop)
              hdr == HdrBytes(REC_TYPE_DROP, 0, DropSize, now)
              drop == DropBytes(lost, ctrl.drop_start_ns, now)
              r == myring_reserve(ctrl, need)
              pos == r[2]
              d1 == myring_write_bytes(data, ctrl.size, pos, hdr, HdrSize)
              d2 == myring_write_bytes(d1, ctrl.size, pos + HdrSize, drop, DropSize)
          IN  IF r[1]
              THEN /\ data' = d2
                   /\ ctrl' = [ctrl EXCEPT !.head = pos + need,
                                           !.flags = ClearFlag(ctrl.flags, CTRL_FLAG_DROPPING)]
                   /\ dev' = [dev EXCEPT !.records = dev.records + 1,
                                         !.bytes = dev.bytes + need]
                   /\ ghost' = [Quiet(ghost) EXCEPT !.committed =
                        Append(ghost.committed,
                               [type |-> REC_TYPE_DROP, pos |-> pos, raw |-> hdr \o drop,
                                lost |-> lost, burst |-> ghost.burst])]
              ELSE /\ UNCHANGED <<ctrl, dev, data>>
                   /\ ghost' = Quiet(ghost)
  /\ UNCHANGED <<efd, now, cons>>

\* the two myring_write_bytes of the packet (lines 227-228)
PushWrite ==
  /\ prod.pc = "write"
  /\ LET hdr == HdrBytes(REC_TYPE_PKT, 0, prod.len, prod.ts)
         d1 == myring_write_bytes(data, ctrl.size, prod.pos, hdr, HdrSize)
     IN  data' = myring_write_bytes(d1, ctrl.size, prod.pos + HdrSize, prod.payload, prod.len)
  /\ prod' = [prod EXCEPT !.pc = "commit"]
  /\ ghost' = Quiet(ghost)
  /\ UNCHANGED <<ctrl, dev, efd, now, cons>>

\* the commit without the byte count of line 232
PushCommit_NoBytes ==
  /\ prod.pc = "commit"
  /\ LET need == HdrSize + prod.len
     IN  /\ ctrl' = [ctrl EXCEPT !.head = prod.pos + need]
         /\ dev' = [dev EXCEPT !.records = dev.records + 1]
         /\ ghost' = [Quiet(ghost) EXCEPT
                        !.committed = Append(ghost.committed,
                           [type |-> REC_TYPE_PKT, pos |-> prod.pos,
                            raw |-> HdrBytes(REC_TYPE_PKT, 0, prod.len, prod.ts) \o prod.payload,
                            lost |-> 0, burst |-> ghost.burst]),
                        !.burst = 0]
  /\ prod' = [prod EXCEPT !.pc = "notify"]
  /\ UNCHANGED <<data, efd, now, cons>>

\* rb_commit_head and the stats (lines 229-232)
PushCommit ==
  /\ prod.pc = "commit"
  /\ LET need == HdrSize + prod.len
     IN  /\ ctrl' = [ctrl EXCEPT !.head = prod.pos + need]
         /\ dev' = [dev EXCEPT !.records = dev.records + 1, !.bytes = dev.bytes + need]
         /\ ghost' = [Quiet(ghost) EXCEPT
                        !.committed = Append(ghost.committed,
                           [type |-> REC_TYPE_PKT, pos |-> prod.pos,
                            raw |-> HdrBytes(REC_TYPE_PKT, 0, prod.len, prod.ts) \o prod.payload,
                            lost |-> 0, burst |-> ghost.burst]),
                        !.burst = 0]
  /\ prod' = [prod EXCEPT !.pc = "notify"]
  /\ UNCHANGED <<data, efd, now, cons>>

\* the ghost after a call of myring_maybe_notify with outcome n, made on behalf of who
Notified(g, n, who, release) ==
  [g EXCEPT !.sig = IF n[2] THEN who ELSE "none",
            !.ioc = <<"none", "none">>,
            !.lastClear = IF n[3] THEN release ELSE g.lastClear]

\* myring_maybe_notify after the head release (line 238)
PushNotify ==
  /\ prod.pc = "notify"
  /\ LET n == myring_maybe_notify(dev, ctrl)
     IN  /\ dev' = [dev EXCEPT !.above_hi = n[1]]
         /\ efd' = IF n[2] THEN myring_signal(dev, efd) ELSE efd
         /\ ghost' = Notified(ghost, n, "push", "head")
  /\ prod' = InitProd
  /\ UNCHANGED <<ctrl, data, now, cons>>

myring_push_packet(lens) ==
  \/ \E len \in lens : PushBegin(len)
  \/ PushFlush
  \/ PushWrite
  \/ PushCommit
  \/ PushNotify


(* --------------------------------------------------------- control ioctls *)
\* MYRING_IOC_SET_WM without the lo > hi rejection
IoctlSetWM_NoOrderCheck(c, hi, lo) ==
  IF UGt(hi, 100) \/ UGt(lo, 100) THEN <<"EINVAL", c>>
  ELSE <<"OK", [c EXCEPT !.hi_pct = hi, !.lo_pct = lo]>>

\* MYRING_IOC_SET_WM without the hi > 100 rejection
IoctlSetWM_NoHiCheck(c, hi, lo) ==
  IF UGt(lo, 100) \/ UGt(lo, hi) THEN <<"EINVAL", c>>
  ELSE <<"OK", [c EXCEPT !.hi_pct = hi, !.lo_pct = lo]>>

\* MYRING_IOC_SET_WM (lines 299-306): <<ret, ctrl after>>
IoctlSetWM(c, hi, lo) ==
  IF UGt(hi, 100) \/ UGt(lo, 100) \/ UGt(lo, hi) THEN <<"EINVAL", c>>
  ELSE <<"OK", [c EXCEPT !.hi_pct = hi, !.lo_pct = lo]>>

\* MYRING_IOC_SET_EVENTFD (lines 307-316) with the descriptor of an eventfd (bound = TRUE)
\* or a negative descriptor (bound = FALSE): the device after
IoctlSetEventfd(d, bound) == [d EXCEPT !.evt = bound]

\* MYRING_IOC_ADVANCE_TAIL without the new_tail < tail rejection (a variant the
\* tail monotonicity must tell apart from the code)
IoctlAdvanceTail_NoTailCheck(c, d, counter, new_tail) ==
  IF UGt(new_tail, c.head)
  THEN [ret |-> "EINVAL", ctrl |-> c, dev |-> d, efd |-> counter,
        n |-> <<d.above_hi, FALSE, FALSE>>]
  ELSE LET c1 == [c EXCEPT !.tail = new_tail]
           n == myring_maybe_notify(d, c1)
       IN  [ret |-> "OK", ctrl |-> c1, dev |-> [d EXCEPT !.above_hi = n[1]],
            efd |-> IF n[2] THEN myring_signal(d, counter) ELSE counter,
            n |-> n]

\* MYRING_IOC_ADVANCE_TAIL without the new_tail > head rejection
IoctlAdvanceTail_NoHeadCheck(c, d, counter, new_tail) ==
  IF ULt(new_tail, c.tail)
  THEN [ret |-> "EINVAL", ctrl |-> c, dev |-> d, efd |-> counter,
        n |-> <<d.above_hi, FALSE, FALSE>>]
  ELSE LET c1 == [c EXCEPT !.tail = new_tail]
           n == myring_maybe_notify(d, c1)
       IN  [ret |-> "OK", ctrl |-> c1, dev |-> [d EXCEPT !.above_hi = n[1]],
            efd |-> IF n[2] THEN myring_signal(d, counter) ELSE counter,
            n |-> n]

\* MYRING_IOC_ADVANCE_TAIL (lines 330-341): the outcome as a record
IoctlAdvanceTail(c, d, counter, new_tail) ==
  IF UGt(new_tail, c.head) \/ ULt(new_tail, c.tail)
  THEN [ret |-> "EINVAL", ctrl |-> c, dev |-> d, efd |-> counter,
        n |-> <<d.above_hi, FALSE, FALSE>>]
  ELSE LET c1 == [c EXCEPT !.tail = new_tail]
           n == myring_maybe_notify(d, c1)
       IN  [ret |-> "OK", ctrl |-> c1, dev |-> [d EXCEPT !.above_hi = n[1]],
            efd |-> IF n[2] THEN myring_signal(d, counter) ELSE counter,
            n |-> n]

\* MYRING_IOC_RESET that leaves the flags as they are
IoctlReset_KeepFlags(c, d) ==
  <<[c EXCEPT !.head = 0, !.tail = 0, !.drop_start_ns = 0, !.lost_in_drop = 0],
    [d EXCEPT !.drops = 0, !.records = 0, !.bytes = 0, !.above_hi = FALSE]>>

\* MYRING_IOC_RESET that leaves above_hi as it is
IoctlReset_KeepAboveHi(c, d) ==
  <<[c EXCEPT !.head = 0, !.tail = 0, !.flags = 0,
              !.drop_start_ns = 0, !.lost_in_drop = 0],
    [d EXCEPT !.drops = 0, !.records = 0, !.bytes = 0]>>

\* MYRING_IOC_RESET (lines 342-351): <<ctrl after, dev after>>. The stores run
\* under ioctl_mu, which the producer does not take.
IoctlReset(c, d) ==
  <<[c EXCEPT !.head = 0, !.tail = 0, !.flags = 0,
              !.drop_start_ns = 0, !.lost_in_drop = 0],
    [d EXCEPT !.drops = 0, !.records = 0, !.bytes = 0, !.above_hi = FALSE]>>

\* MYRING_IOC_GET_CONFIG (lines 352-360): the struct myring_config it copies out
IoctlGetConfig(c) ==
  [ring_order |-> RingOrder, rate_hz |-> RateHz, ring_size |-> c.size]

\* myring_poll (lines 376-384): TRUE for EPOLLIN | EPOLLRDNORM, FALSE for 0
myring_poll(c) == UGe(rb_pct(rb_used(c), c.size), c.hi_pct)

(* -------------------------------------------------------------- consumer *)
\* user.c main(): ioctl(SET_WM, {50, 30}) (lines 67-68)
ConsSetWM ==
  /\ cons.pc = "start"
  /\ LET r == IoctlSetWM(ctrl, 50, 30)
     IN  /\ ctrl' = r[2]
         /\ ghost' = [Quiet(ghost) EXCEPT !.ioc = <<"SET_WM", r[1]>>]
  /\ cons' = [cons EXCEPT !.pc = "bind"]
  /\ UNCHANGED <<dev, data, efd, now, prod>>

\* eventfd(0), ioctl(SET_EVENTFD), mmap, epoll_ctl (lines 71-89)
ConsSetEventfd ==
  /\ cons.pc = "bind"
  /\ dev' = IoctlSetEventfd(dev, TRUE)
  /\ efd' = 0
  /\ cons' = [cons EXCEPT !.pc = "wait"]
  /\ ghost' = [Quiet(ghost) EXCEPT !.ioc = <<"SET_EVENTFD", "OK">>]
  /\ UNCHANGED <<ctrl, data, now, prod>>

\* epoll_wait returns and the eventfd is read, which resets its counter (lines 96-104)
ConsWake ==
  /\ cons.pc = "wait"
  /\ efd > 0
  /\ efd' = 0
  /\ cons' = [cons EXCEPT !.pc = "load"]
  /\ ghost' = Quiet(ghost)
  /\ UNCHANGED <<ctrl, dev, data, now, prod>>

\* the loads of head and tail and the peek of the header (lines 108-122)
ConsLoad ==
  /\ cons.pc = "load"
  /\ IF ctrl.tail = ctrl.head
     THEN cons' = [cons EXCEPT !.pc = "wait", !.head = ctrl.head, !.tail = ctrl.tail]
     ELSE LET hdr == RingRead(data, ctrl.size, ctrl.tail, HdrSize)
              len == LEU32(SubSeq(hdr, 5, 8))
          IN  cons' = [pc |-> "copy", head |-> ctrl.head, tail |-> ctrl.tail,
                       reclen |-> HdrSize + len]
  /\ ghost' = Quiet(ghost)
  /\ UNCHANGED <<ctrl, dev, data, efd, now, prod>>

\* the copy of the record is inside the data region: its second span has at most size bytes
CopyInBounds(size, tail, reclen) ==
  reclen - Min(size - (tail % size), reclen) <= size

\* the copy of the whole record and its dispatch on type (lines 125-149).  A second
\* span longer than the region reads past the mapping: the process dies, or goes on
\* with whatever it read there.
ConsCopy ==
  /\ cons.pc = "copy"
  /\ IF CopyInBounds(ctrl.size, cons.tail, cons.reclen)
     THEN LET tmp == RingRead(data, ctrl.size, cons.tail, cons.reclen)
          IN  /\ ghost' = [Quiet(ghost) EXCEPT !.seen =
                    Append(ghost.seen, [type |-> LEU16(tmp), raw |-> tmp, whole |-> TRUE])]
              /\ cons' = [cons EXCEPT !.pc = "advance"]
     ELSE LET tmp == RingRead(data, ctrl.size, cons.tail, HdrSize)
          IN  \/ /\ cons' = [cons EXCEPT !.pc = "dead"]
                 /\ ghost' = Quiet(ghost)
              \/ /\ ghost' = [Quiet(ghost) EXCEPT !.seen =
                       Append(ghost.seen, [type |-> LEU16(tmp), raw |-> tmp, whole |-> FALSE])]
                 /\ cons' = [cons EXCEPT !.pc = "advance"]
  /\ UNCHANGED <<ctrl, dev, data, efd, now, prod>>

\* ioctl(ADVANCE_TAIL, tail + reclen); a failure breaks out to the wait (lines 152-156)
ConsAdvance ==
  /\ cons.pc = "advance"
  /\ LET r == IoctlAdvanceTail(ctrl, dev, efd, cons.tail + cons.reclen)
     IN  /\ ctrl' = r.ctrl
         /\ dev' = r.dev
         /\ efd' = r.efd
         /\ ghost' = [Notified(ghost, r.n, "advance", "tail") EXCEPT
                        !.ioc = <<"ADVANCE_TAIL", r.ret>>]
         /\ cons' = [cons EXCEPT !.pc = IF r.ret = "OK" THEN "load" ELSE "wait"]
  /\ UNCHANGED <<data, now, prod>>

Consumer ==
  \/ ConsSetWM
  \/ ConsSetEventfd
  \/ ConsWake
  \/ ConsLoad
  \/ ConsCopy
  \/ ConsAdvance

(* ------------------------------------------- any process using the ioctls *)
\* <<hi_pct, lo_pct>> a caller passes to MYRING_IOC_SET_WM: two pairs it accepts
\* (both with lo = hi) and two it rejects (hi > 100, lo > hi)
WmCalls == {<<0, 0>>, <<50, 50>>, <<101, 0>>, <<30, 50>>}

\* the cursor values at which a committed record starts or ends
RecordEnds ==
  {ghost.committed[i].pos : i \in DOMAIN ghost.committed}
    \cup {ghost.committed[i].pos + Len(ghost.committed[i].raw) : i \in DOMAIN ghost.committed}

\* new_tail values a caller passes to MYRING_IOC_ADVANCE_TAIL: the cursors, one
\* below tail, one above head, and the record ends between tail and head
AdvTargets ==
  {ctrl.tail - 1, ctrl.tail, ctrl.head, ctrl.head + 1}
    \cup {b \in RecordEnds : ctrl.tail < b /\ b < ctrl.head}

UserSetWM(hi, lo) ==
  /\ LET r == IoctlSetWM(ctrl, hi, lo)
     IN  /\ ctrl' = r[2]
         /\ ghost' = [Quiet(ghost) EXCEPT !.ioc = <<"SET_WM", r[1]>>]
  /\ UNCHANGED <<dev, data, efd, now, prod, cons>>

UserSetEventfd(bound) ==
  /\ dev' = IoctlSetEventfd(dev, bound)
  /\ ghost' = [Quiet(ghost) EXCEPT !.ioc = <<"SET_EVENTFD", "OK">>]
  /\ UNCHANGED <<ctrl, data, efd, now, prod, cons>>

UserAdvanceTail(new_tail) ==
  /\ LET r == IoctlAdvanceTail(ctrl, dev, efd, new_tail)
     IN  /\ ctrl' = r.ctrl
         /\ dev' = r.dev
         /\ efd' = r.efd
         /\ ghost' = [Notified(ghost, r.n, "advance", "tail") EXCEPT
                        !.ioc = <<"ADVANCE_TAIL", r.ret>>]
  /\ UNCHANGED <<data, now, prod, cons>>

UserReset ==
  /\ LET r == IoctlReset(ctrl, dev)
     IN  /\ ctrl' = r[1]
         /\ dev' = r[2]
  /\ ghost' = [Quiet(ghost) EXCEPT !.ioc = <<"RESET", "OK">>,
                                   !.burst = 0, !.lastClear = "init"]
  /\ UNCHANGED <<data, efd, now, prod, cons>>

\* poll() on the device
UserPoll ==
  /\ ghost' = [Quiet(ghost) EXCEPT
                 !.ioc = <<"POLL", IF myring_poll(ctrl) THEN "EPOLLIN" ELSE "0">>]
  /\ UNCHANGED <<ctrl, dev, data, efd, now, prod, cons>>

\* MYRING_IOC_GET_CONFIG: the caller receives IoctlGetConfig(ctrl)
UserGetConfig ==
  /\ ghost' = [Quiet(ghost) EXCEPT !.ioc = <<"GET_CONFIG", "OK">>]
  /\ UNCHANGED <<ctrl, dev, data, efd, now, prod, cons>>

(* -------------------------------------------------------- specifications *)
\* the kernel producer and the user.c consumer, step by step
Next ==
  \/ myring_push_packet(PktLens)
  \/ Consumer

Spec == Init /\ [][Next]_vars

\* ... with the producer's work item and the consumer process both scheduled
FairSpec ==
  /\ Spec
  /\ WF_vars(myring_push_packet(PktLens))
  /\ WF_vars(Consumer)

\* the producer, step by step, against any sequence of control ioctls
NextCtl ==
  \/ myring_push_packet(PktLens)
  \/ \E wm \in WmCalls : UserSetWM(wm[1], wm[2])
  \/ \E t \in AdvTargets : UserAdvanceTail(t)

SpecCtl == Init /\ [][NextCtl]_vars

\* the payload length of the pushes under SpecEvt: with the 16-byte header, a
\* record as long as a DROP record
EvtPktLens == {DropSize}

\* the producer against a caller that also binds and unbinds the eventfd
NextEvt ==
  \/ myring_push_packet(EvtPktLens)
  \/ \E wm \in WmCalls : UserSetWM(wm[1], wm[2])
  \/ \E b \in BOOLEAN : UserSetEventfd(b)
  \/ \E t \in AdvTargets : UserAdvanceTail(t)

SpecEvt == Init /\ [][NextEvt]_vars

\* payload lengths under SpecFill: records of half the ring, which fill it
\* exactly, and a record one byte longer than the ring
FillPktLens == {Pow2(RingOrder - 1) - HdrSize, Pow2(RingOrder) + 1 - HdrSize}

\* the producer against a caller of MYRING_IOC_ADVANCE_TAIL, with records that
\* fill the ring exactly
NextFill ==
  \/ myring_push_packet(FillPktLens)
  \/ \E t \in AdvTargets : UserAdvanceTail(t)

SpecFill == Init /\ [][NextFill]_vars

\* the producer against callers of MYRING_IOC_SET_WM, MYRING_IOC_ADVANCE_TAIL
\* and MYRING_IOC_RESET
NextRst ==
  \/ myring_push_packet(EvtPktLens)
  \/ \E wm \in WmCalls : UserSetWM(wm[1], wm[2])
  \/ \E t \in AdvTargets : UserAdvanceTail(t)
  \/ UserReset

SpecRst == Init /\ [][NextRst]_vars

\* the producer against callers of SET_WM and ADVANCE_TAIL that also poll the
\* device and read its configuration
NextPoll ==
  \/ myring_push_packet(PktLens)
  \/ \E wm \in WmCalls : UserSetWM(wm[1], wm[2])
  \/ \E t \in AdvTargets : UserAdvanceTail(t)
  \/ UserPoll
  \/ UserGetConfig

SpecPoll == Init /\ [][NextPoll]_vars

\* a large ring with watermarks configured once, the operations one at a time:
\* MYRING_IOC_ADVANCE_TAIL runs only between two calls of myring_push_packet
InitSeq ==
  \E wm \in WmPairs :
    /\ ctrl = IoctlSetWM(InitCtrl(BigRingOrder), wm[1], wm[2])[2]
    /\ dev = InitDev
    /\ data = [i \in 0 .. Pow2(BigRingOrder) - 1 |-> 0]
    /\ efd = 0
    /\ now = 0
    /\ prod = InitProd
    /\ cons = InitCons
    /\ ghost = InitGhost

NextSeq ==
  \/ myring_push_packet(SeqPktLens)
  \/ /\ prod.pc = "idle"
     /\ \E t \in AdvTargets : UserAdvanceTail(t)

SpecSeq == InitSeq /\ [][NextSeq]_vars

(* ----------------------------------------------------------------- claims *)
\* C1: in every observable state tail <= head and head - tail <= S.
C1_CursorWindow ==
  /\ ctrl.tail <= ctrl.head
  /\ ctrl.head - ctrl.tail <= ctrl.size

\* C4: the producer never writes a data byte at a cursor position inside the
\* released window [tail, head): when it is about to copy the packet to
\* [pos, pos + 16 + len), that range and [tail, head) are disjoint.
C4_NoWriteBelowHead ==
  prod.pc = "write" =>
    ~(prod.pos < ctrl.head /\ ctrl.tail < prod.pos + HdrSize + prod.len)

\* C5: absent Reset, no step stores a smaller value to head.
C5_HeadMonotone == [][ctrl'.head >= ctrl.head]_vars

(* what a reader of the history sees *)
IsPkt(r) == r.type = REC_TYPE_PKT
IsDrop(r) == r.type = REC_TYPE_DROP

\* the payload of a record given by its bytes
PayloadBytes(r) == SubSeq(r.raw, HdrSize + 1, Len(r.raw))

\* the lost field of a decoded DROP record
LostField(r) == LEU32(SubSeq(r.raw, HdrSize + 1, HdrSize + 4))

PktPayloads(recs) ==
  LET sel == SelectSeq(recs, IsPkt)
  IN  [i \in 1 .. Len(sel) |-> PayloadBytes(sel[i])]

IsPrefix(a, b) == Len(a) <= Len(b) /\ \A i \in 1 .. Len(a) : a[i] = b[i]

\* C2: a PKT committed right after a burst of k >= 1 failed pushes is decoded
\* immediately after exactly one DROP record, whose lost field is k.
C2_OneDropPerBurst ==
  \A i \in DOMAIN ghost.seen : \A j \in DOMAIN ghost.committed :
    ( /\ IsPkt(ghost.committed[j])
      /\ ghost.committed[j].burst >= 1
      /\ ghost.seen[i].raw = ghost.committed[j].raw )
    => /\ i > 1
       /\ IsDrop(ghost.seen[i - 1])
       /\ Len(ghost.seen[i - 1].raw) = HdrSize + DropSize
       /\ LostField(ghost.seen[i - 1]) = ghost.committed[j].burst
       /\ (i > 2 => ~IsDrop(ghost.seen[i - 2]))

\* C3: the PKT payloads the consumer decoded are, in order and byte for byte, a
\* prefix of the PKT payloads the producer committed.
C3_DecodedIsPrefix ==
  IsPrefix(PktPayloads(ghost.seen), PktPayloads(ghost.committed))

\* the fill level in percent, as myring_maybe_notify and myring_poll compute it
Pct(c) == rb_pct(rb_used(c), c.size)

\* C6: absent Reset, tail never decreases, and only MYRING_IOC_ADVANCE_TAIL stores it.
C6_TailMonotone ==
  [][ /\ ctrl'.tail >= ctrl.tail
      /\ (ghost'.ioc # <<"ADVANCE_TAIL", "OK">> => ctrl'.tail = ctrl.tail) ]_vars

\* C6 witness: an accepted MYRING_IOC_ADVANCE_TAIL has moved tail while a push is in progress
C6_Witness ==
  /\ ghost.ioc = <<"ADVANCE_TAIL", "OK">>
  /\ ctrl.tail > 0
  /\ prod.pc = "commit"

\* C7: with the operations one at a time, a signal is emitted only while above_hi is
\* clear, every signal after the first is armed by a tail release that observed
\* pct <= lo_pct, and a tail release that leaves lo_pct < pct does not clear above_hi.
C7_EdgeTriggered ==
  [][ /\ (ghost'.sig # "none" =>
            ~dev.above_hi /\ ghost.lastClear \in {"init", "tail"})
      /\ ( (dev.above_hi /\ ghost'.ioc = <<"ADVANCE_TAIL", "OK">>
              /\ Pct(ctrl') > ctrl.lo_pct)
           => dev'.above_hi) ]_vars

\* C8: no successful MYRING_IOC_ADVANCE_TAIL emits a signal: the call leaves the
\* counter of the bound eventfd as it found it.
C8_TailReleaseSilent ==
  [][ ghost'.ioc = <<"ADVANCE_TAIL", "OK">> => efd' = efd ]_vars

\* C9: the system never reaches a state where the ring is at or above hi_pct,
\* above_hi is set, and the consumer waits on its eventfd with no signal pending.
C9_NoSilentWait ==
  ~( /\ cons.pc = "wait"
     /\ efd = 0
     /\ dev.above_hi
     /\ ctrl.head >= ctrl.tail
     /\ (100 * (ctrl.head - ctrl.tail)) \div ctrl.size >= ctrl.hi_pct )

\* C10: when the producer path has emitted a signal, the released head and the
\* tail satisfy 100 * (head - tail) / S >= hi_pct.
C10_SignalAfterRelease ==
  ghost.sig = "push" =>
    (100 * (ctrl.head - ctrl.tail)) \div ctrl.size >= ctrl.hi_pct

\* a call of myring_push_packet begins with this step (its reservation)
PushBegins == prod.pc = "idle" /\ dev'.seq_number = dev.seq_number + 1

\* what myring_on_full and the drop counter do to a push that is counted as lost
CountedAsLost ==
  /\ prod'.pc = "idle"
  /\ ctrl'.head = ctrl.head
  /\ ctrl'.lost_in_drop = ctrl.lost_in_drop + 1
  /\ dev'.drops = dev.drops + 1
  /\ HasFlag(ctrl'.flags, CTRL_FLAG_DROPPING)

\* C11: a push that begins while DROPPING is set and the ring has no room for the
\* DROP record and the packet together (free < 36 + 16 + len) is counted as lost:
\* lost_in_drop and drops go up by one, head is unchanged, DROPPING stays set.
C11_CombinedReservation ==
  [][ ( /\ PushBegins
        /\ HasFlag(ctrl.flags, CTRL_FLAG_DROPPING)
        /\ \/ prod'.pc = "idle"
           \/ ULt(rb_free(ctrl), HdrSize + DropSize + HdrSize + prod'.len) )
      => CountedAsLost ]_vars

\* C12: in the records the consumer decodes, a DROP record is never followed by
\* another DROP record, the record after a DROP record is a committed PKT that
\* ended a burst, and no PKT is committed while DROPPING is set.
C12_DropThenPkt ==
  /\ \A i \in DOMAIN ghost.seen :
       (IsDrop(ghost.seen[i]) /\ i < Len(ghost.seen)) =>
         /\ IsPkt(ghost.seen[i + 1])
         /\ \E j \in DOMAIN ghost.committed :
              /\ IsPkt(ghost.committed[j])
              /\ ghost.committed[j].burst >= 1
              /\ ghost.committed[j].raw = ghost.seen[i + 1].raw
  /\ (prod.pc = "notify" => ~HasFlag(ctrl.flags, CTRL_FLAG_DROPPING))

\* C13: with no push in progress, DROPPING is set exactly when lost_in_drop > 0.
C13_DroppingIffLost ==
  prod.pc = "idle" =>
    (HasFlag(ctrl.flags, CTRL_FLAG_DROPPING) <=> ctrl.lost_in_drop > 0)

\* the largest reservation C14 and C15 try: twice the ring
MaxNeed == 2 * Pow2(RingOrder)

\* C14: when head - tail = S, rb_used is S (not 0), myring_reserve(n) fails for
\* every n >= 1, and a push that begins there is counted as a drop and leaves
\* head and the data region as they were.
C14_ExactFillIsFull ==
  [][ ctrl.head - ctrl.tail = ctrl.size =>
        /\ rb_used(ctrl) = ctrl.size
        /\ rb_free(ctrl) = 0
        /\ \A n \in 1 .. MaxNeed : ~myring_reserve(ctrl, n)[1]
        /\ PushBegins =>
             /\ prod'.pc = "idle"
             /\ ctrl'.head = ctrl.head
             /\ data' = data
             /\ dev'.drops = dev.drops + 1
             /\ dev'.records = dev.records
             /\ HasFlag(ctrl'.flags, CTRL_FLAG_DROPPING)
             /\ ctrl'.lost_in_drop >= 1 ]_vars

\* C14 witness: the ring is exactly full and a push was counted as a drop there
C14_Witness ==
  /\ ctrl.head - ctrl.tail = ctrl.size
  /\ prod.pc = "idle"
  /\ ghost.burst >= 1
  /\ HasFlag(ctrl.flags, CTRL_FLAG_DROPPING)

\* C15: in every reachable state, myring_reserve(n) fails for every n > S, and a
\* push whose record is longer than S is counted as lost.
C15_OversizeRejected ==
  [][ /\ \A n \in ctrl.size + 1 .. MaxNeed : ~myring_reserve(ctrl, n)[1]
      /\ (PushBegins /\ prod'.pc # "idle") => HdrSize + prod'.len <= ctrl.size ]_vars

\* hi_pct and lo_pct values tried on MYRING_IOC_SET_WM; -1 is the u32 0xFFFFFFFF
WmArgs == {0, 30, 50, 100, 101, -1}

\* C16: MYRING_IOC_SET_WM returns EINVAL exactly when hi > 100 or lo > hi and then
\* changes nothing; otherwise it sets hi_pct = hi and lo_pct = lo and nothing else.
C16_SetWMExact ==
  [][ ghost'.ioc[1] = "SET_WM" =>
        /\ \A hi \in WmArgs : \A lo \in WmArgs :
             IoctlSetWM(ctrl, hi, lo) =
               IF UGt(hi, 100) \/ UGt(lo, hi) THEN <<"EINVAL", ctrl>>
               ELSE <<"OK", [ctrl EXCEPT !.hi_pct = hi, !.lo_pct = lo]>>
        /\ \E wm \in WmCalls :
             <<ghost'.ioc[2], ctrl'>> = IoctlSetWM(ctrl, wm[1], wm[2])
        /\ ghost'.ioc[2] = "EINVAL" => ctrl' = ctrl
        /\ UNCHANGED <<dev, data, efd, now, prod, cons>> ]_vars

\* C16 witness: a rejected MYRING_IOC_SET_WM after an accepted one, with records committed
C16_Witness ==
  /\ ghost.ioc = <<"SET_WM", "EINVAL">>
  /\ ctrl.hi_pct = 50 /\ ctrl.lo_pct = 50
  /\ dev.records >= 1

\* C17: hi_pct = 50 and lo_pct = 30 after init, and 0 <= lo_pct <= hi_pct <= 100
\* in every state reached through pushes, SET_WM, ADVANCE_TAIL and RESET.
C17_WatermarkRange ==
  /\ ctrl.hi_pct = 50 /\ ctrl.lo_pct = 30
  /\ [](0 <= ctrl.lo_pct /\ ctrl.lo_pct <= ctrl.hi_pct /\ ctrl.hi_pct <= 100)

\* C17 witness: a MYRING_IOC_RESET that ran after the watermarks were changed
C17_Witness ==
  /\ ghost.ioc = <<"RESET", "OK">>
  /\ ctrl.hi_pct = 0 /\ ctrl.lo_pct = 0

\* C18: MYRING_IOC_ADVANCE_TAIL returns EINVAL exactly when new_tail > head or
\* new_tail < tail, and then leaves the control block, above_hi and the eventfd
\* counter as they were; otherwise it stores tail = new_tail, nothing else in the
\* control block, and above_hi and the eventfd counter become what
\* myring_maybe_notify makes of the new fill level.
C18_AdvanceTailExact ==
  [][ ghost'.ioc[1] = "ADVANCE_TAIL" =>
        /\ \A t \in AdvTargets :
             LET r == IoctlAdvanceTail(ctrl, dev, efd, t)
                 bad == UGt(t, ctrl.head) \/ ULt(t, ctrl.tail)
                 n == myring_maybe_notify(dev, [ctrl EXCEPT !.tail = t])
             IN  IF bad
                 THEN r.ret = "EINVAL" /\ r.ctrl = ctrl /\ r.dev = dev /\ r.efd = efd
                 ELSE /\ r.ret = "OK"
                      /\ r.ctrl = [ctrl EXCEPT !.tail = t]
                      /\ r.dev = [dev EXCEPT !.above_hi = n[1]]
                      /\ r.efd = (IF n[2] THEN myring_signal(dev, efd) ELSE efd)
        /\ \E t \in AdvTargets :
             LET r == IoctlAdvanceTail(ctrl, dev, efd, t)
             IN  ghost'.ioc[2] = r.ret /\ ctrl' = r.ctrl /\ dev' = r.dev /\ efd' = r.efd
        /\ ghost'.ioc[2] = "EINVAL" =>
             (ctrl' = ctrl /\ dev' = dev /\ efd' = efd /\ ghost'.sig = "none")
        /\ UNCHANGED <<data, now, prod, cons>> ]_vars

\* C18 witness: a rejected MYRING_IOC_ADVANCE_TAIL after tail has moved, with the
\* eventfd bound and a push in progress
C18_Witness ==
  /\ ghost.ioc = <<"ADVANCE_TAIL", "EINVAL">>
  /\ ctrl.tail > 0
  /\ ctrl.tail < ctrl.head
  /\ dev.evt
  /\ prod.pc = "write"

\* C19: a MYRING_IOC_RESET executed while no push is in progress leaves head = 0,
\* tail = 0, flags = 0, drop_start_ns = 0, lost_in_drop = 0 and the records, bytes
\* and drops counters at 0.
C19_ResetZeroes ==
  [][ (ghost'.ioc[1] = "RESET" /\ prod.pc = "idle") =>
        /\ ctrl'.head = 0 /\ ctrl'.tail = 0
        /\ ctrl'.flags = 0
        /\ ctrl'.drop_start_ns = 0 /\ ctrl'.lost_in_drop = 0
        /\ dev'.records = 0 /\ dev'.bytes = 0 /\ dev'.drops = 0 ]_vars

\* C19 witness: a MYRING_IOC_RESET with no push in progress, after records and a
\* DROP record were committed
C19_Witness ==
  /\ ghost.ioc = <<"RESET", "OK">>
  /\ prod.pc = "idle"
  /\ \E i \in DOMAIN ghost.committed : IsDrop(ghost.committed[i])
  /\ \E i \in DOMAIN ghost.committed : IsPkt(ghost.committed[i])

\* C20: a push that commits its packet keeps tail <= head <= tail + S, and when it
\* commits into a ring that is as MYRING_IOC_RESET leaves it (head = tail = 0, no
\* records) the result is that of the reset followed by the push: head = 16 + len.
C20_ResetSerializable ==
  [][ (prod.pc = "commit" /\ prod'.pc = "notify") =>
        /\ ctrl'.tail <= ctrl'.head
        /\ ctrl'.head - ctrl'.tail <= ctrl.size
        /\ (ctrl.head = 0 /\ ctrl.tail = 0 /\ dev.records = 0) =>
             ctrl'.head = HdrSize + prod.len ]_vars

\* record i of the committed sequence starts so close to the end of the data
\* region that its header is split between the end and the start
HeaderWraps(r) == (r.pos % ctrl.size) + HdrSize > ctrl.size

C22_PollLevel ==
  [][ ghost'.ioc[1] = "POLL" =>
        (ghost'.ioc[2] = "EPOLLIN" <=>
           (100 * (ctrl.head - ctrl.tail)) \div ctrl.size >= ctrl.hi_pct) ]_vars

\* C25: MYRING_IOC_GET_CONFIG returns the ring size and the current hi_pct and lo_pct.
C25_GetConfig ==
  ghost.ioc[1] = "GET_CONFIG" =>
    LET r == IoctlGetConfig(ctrl)
    IN  /\ r.ring_size = ctrl.size
        /\ "hi_pct" \in DOMAIN r /\ "lo_pct" \in DOMAIN r
        /\ r.hi_pct = ctrl.hi_pct /\ r.lo_pct = ctrl.lo_pct

\* how far a call of myring_push_packet has got
PushRank(pc) ==
  CASE pc = "idle" -> 0 [] pc = "flush" -> 1 [] pc = "write" -> 2
    [] pc = "commit" -> 3 [] pc = "notify" -> 4

\* C23: a push in progress can always take its next step, whatever the consumer
\* and the ioctl callers have or have not done, every step of it moves it forward,
\* and it returns after at most five steps (reserve, flush, write, commit, notify).
C23_ProducerNeverBlocks ==
  [][ /\ prod.pc # "idle" => ENABLED myring_push_packet(PktLens)
      /\ prod' # prod =>
           \/ PushRank(prod'.pc) = PushRank(prod.pc) + 1
           \/ prod'.pc = "idle" /\ prod.pc = "notify" ]_vars

\* C23 witness: a push is at its drop flush with DROPPING set and less room than
\* a DROP record needs, while the consumer sits in its wait
C23_Witness ==
  /\ prod.pc = "flush"
  /\ HasFlag(ctrl.flags, CTRL_FLAG_DROPPING)
  /\ ~myring_reserve(ctrl, HdrSize + DropSize)[1]
  /\ cons.pc = "wait" /\ efd = 0

\* the record the consumer has just dispatched
LastSeen == ghost.seen[Len(ghost.seen)]

\* C24: whenever the consumer has dispatched a record, of whatever type, its next
\* step moves tail forward by exactly 16 + the len of that record's header, and it
\* goes on to load the next record.
C24_UniformAdvance ==
  [][ cons.pc = "advance" /\ cons'.pc # "advance" =>
        /\ ctrl'.tail = ctrl.tail + HdrSize + LEU32(SubSeq(LastSeen.raw, 5, 8))
        /\ cons'.pc = "load" ]_vars

C27_CoalescerCounting ==
  [][ /\ PushBegins /\ prod'.pc = "idle" =>
           /\ HasFlag(ctrl'.flags, CTRL_FLAG_DROPPING)
           /\ IF HasFlag(ctrl.flags, CTRL_FLAG_DROPPING)
              THEN /\ ctrl'.lost_in_drop = ctrl.lost_in_drop + 1
                   /\ ctrl'.drop_start_ns = ctrl.drop_start_ns
              ELSE /\ ctrl'.lost_in_drop = 1
                   /\ ctrl'.drop_start_ns = now'
      /\ prod.pc = "idle" /\ ~PushBegins =>
           /\ ctrl'.flags = ctrl.flags
           /\ ctrl'.lost_in_drop = ctrl.lost_in_drop
           /\ ctrl'.drop_start_ns = ctrl.drop_start_ns ]_vars

\* C27 witness: three failures in a row from IDLE, the burst stamped two ticks ago
C27_Witness ==
  /\ prod.pc = "idle"
  /\ HasFlag(ctrl.flags, CTRL_FLAG_DROPPING)
  /\ ghost.committed = << >>
  /\ ghost.burst = 3
  /\ ctrl.lost_in_drop = 3
  /\ ctrl.drop_start_ns = now - 2

\* C28: the step of myring_flush_drop_record that commits a DROP record leaves
\* DROPPING clear, lost_in_drop = 0 and drop_start_ns = 0.
C28_FlushZeroes ==
  [][ prod.pc = "flush" /\ ctrl'.head # ctrl.head =>
        /\ ~HasFlag(ctrl'.flags, CTRL_FLAG_DROPPING)
        /\ ctrl'.lost_in_drop = 0
        /\ ctrl'.drop_start_ns = 0 ]_vars

\* following the headers in the data region from cursor pos, one arrives exactly at head
RECURSIVE WalkReaches(_, _, _)
WalkReaches(pos, head, fuel) ==
  IF pos = head THEN TRUE
  ELSE IF pos > head \/ fuel = 0 THEN FALSE
  ELSE WalkReaches(pos + HdrSize + LEU32(SubSeq(RingRead(data, ctrl.size, pos, HdrSize), 5, 8)),
                   head, fuel - 1)

\* C29: in every reachable state the bytes in [tail, head) are whole records: the
\* walk from tail by 16 + header.len per record arrives exactly at head.
C29_RecordBoundaries ==
  WalkReaches(ctrl.tail, ctrl.head, 2 * MaxPush)

(* ------------------------------------------------- the codec on its own *)
\* bytes to write that differ from one another and from what the region holds
TestSrc(len) == [i \in 1 .. len |-> 1 + (i % 251)]

\* the lengths the codec is tried at, up to the size of the region
TestLens == {0, 1, HdrSize, DropSize, Pow2(RingOrder) - 1, Pow2(RingOrder)}

\* the cursors the codec is tried at: two laps of the region
TestCursors == 0 .. 2 * Pow2(RingOrder) - 1

\* what every byte of the region holds before the write
TestFills == {0, 255}

InitCodec ==
  /\ ctrl = InitCtrl(RingOrder)
  /\ dev = InitDev
  /\ data \in {[i \in 0 .. Pow2(RingOrder) - 1 |-> f] : f \in TestFills}
  /\ efd = 0
  /\ now = 0
  /\ prod = InitProd
  /\ cons = InitCons
  /\ ghost = InitGhost

\* one call of myring_write_bytes(d, pos, src, len)
CodecWrite(pos, len) ==
  /\ prod.pc = "idle"
  /\ data' = myring_write_bytes(data, ctrl.size, pos, TestSrc(len), len)
  /\ prod' = [prod EXCEPT !.pc = "commit", !.pos = pos, !.len = len,
                          !.payload = TestSrc(len)]
  /\ UNCHANGED <<ctrl, dev, efd, now, cons, ghost>>

\* the consumer's two-span copy of len bytes at the same cursor
CodecRead ==
  /\ prod.pc = "commit"
  /\ cons.pc = "start"
  /\ LET tmp == RingRead(data, ctrl.size, prod.pos, prod.len)
     IN  ghost' = [ghost EXCEPT !.seen =
                     Append(ghost.seen, [type |-> 0, raw |-> tmp, whole |-> TRUE])]
  /\ cons' = [cons EXCEPT !.pc = "advance", !.tail = prod.pos, !.reclen = prod.len]
  /\ UNCHANGED <<ctrl, dev, data, efd, now, prod>>

NextCodec ==
  \/ \E pos \in TestCursors : \E len \in TestLens : CodecWrite(pos, len)
  \/ CodecRead

SpecCodec == InitCodec /\ [][NextCodec]_vars

\* C30: for every cursor and every len <= S tried, myring_write_bytes puts byte i of
\* the source at offset (cursor + i) mod S, which is min(len, S - (cursor & (S-1)))
\* bytes at offset cursor & (S-1) and the remainder at offset 0, and touches no
\* other byte; the consumer's two-span read of len bytes at that cursor returns
\* exactly the bytes written and changes neither the region nor the cursors.
C30_CodecRoundTrip ==
  [][ /\ prod.pc = "idle" /\ prod'.pc = "commit" =>
           LET off == prod'.pos % ctrl.size
               first == Min(prod'.len, ctrl.size - off)
           IN  data' = [i \in DOMAIN data |->
                          IF off <= i /\ i < off + first THEN prod'.payload[i - off + 1]
                          ELSE IF i < prod'.len - first THEN prod'.payload[first + i + 1]
                          ELSE data[i]]
      /\ cons.pc = "start" /\ cons'.pc = "advance" =>
           /\ ghost'.seen[Len(ghost'.seen)].raw = prod.payload
           /\ data' = data
           /\ ctrl' = ctrl ]_vars

\* C30 witness: a record of S - 1 bytes written on the second lap across the end of
\* the region has been read back whole
C30_Witness ==
  /\ prod.pc = "commit"
  /\ cons.pc = "advance"
  /\ prod.pos >= ctrl.size
  /\ prod.len = ctrl.size - 1
  /\ (prod.pos % ctrl.size) + prod.len > ctrl.size
  /\ ghost.seen = <<[type |-> 0, raw |-> prod.payload, whole |-> TRUE]>>

\* the offsets of the region that a write of len bytes at cursor pos covers
Covered(pos, len, size) == {(pos + i) % size : i \in 0 .. len - 1}

\* C31: a call of myring_write_bytes(pos, src, len) with len <= S changes no byte of
\* the data region outside the offsets (pos + i) mod S, 0 <= i < len, and leaves
\* head, tail and every other field of the control block and the device unchanged.
C31_WriteFrame ==
  [][ prod.pc = "idle" /\ prod'.pc = "commit" =>
        /\ \A j \in DOMAIN data :
             j \notin Covered(prod'.pos, prod'.len, ctrl.size) => data'[j] = data[j]
        /\ DOMAIN data' = DOMAIN data
        /\ ctrl' = ctrl
        /\ dev' = dev
        /\ efd' = efd ]_vars

\* C31 witness: 20 bytes written across the end of a region filled with 255; the
\* bytes on both sides of the written range still hold 255
C31_Witness ==
  /\ prod.pc = "commit"
  /\ cons.pc = "start"
  /\ prod.len = DropSize
  /\ prod.pos % ctrl.size = ctrl.size - 1
  /\ data[ctrl.size - 1] = prod.payload[1]
  /\ data[ctrl.size - 2] = 255
  /\ data[DropSize - 1] = 255
  /\ ctrl.head = 0 /\ ctrl.tail = 0

\* the fields a push in the IDLE state must not touch
IdleFrame(c, d) ==
  <<c.tail, c.flags, c.drop_start_ns, c.lost_in_drop, c.size, d.drops>>

\* the producer takes a step
ProducerStep == prod' # prod \/ dev'.seq_number # dev.seq_number

\* C32: a push that finds DROPPING clear and room for its record goes through its
\* steps changing nothing but head, records and bytes: the reservation, the (empty)
\* drop flush and the write leave head, records and bytes alone, the commit moves
\* head from the reserved position, which is the old head, to exactly
\* pos + 16 + len and adds 1 to records and 16 + len to bytes, and no step of it
\* changes tail, flags, drops or the accumulators.
C32_IdlePush ==
  [][ ProducerStep /\ ~HasFlag(ctrl.flags, CTRL_FLAG_DROPPING) /\ prod'.pc # "idle"
        /\ (prod.pc # "idle" => ctrl.head = prod.pos) =>
        /\ IdleFrame(ctrl', dev') = IdleFrame(ctrl, dev)
        /\ IF prod.pc = "commit"
           THEN /\ ctrl'.head = ctrl.head + HdrSize + prod.len
                /\ dev'.records = dev.records + 1
                /\ dev'.bytes = dev.bytes + HdrSize + prod.len
           ELSE /\ ctrl'.head = ctrl.head
                /\ dev'.records = dev.records
                /\ dev'.bytes = dev.bytes
                /\ prod.pc = "idle" => prod'.pos = ctrl.head ]_vars

\* C32 witness: the second push of a run without any drop has been committed
C32_Witness ==
  /\ prod.pc = "notify"
  /\ dev.drops = 0 /\ ctrl.flags = 0 /\ ctrl.lost_in_drop = 0
  /\ dev.records = 2
  /\ ctrl.head = prod.pos + HdrSize + prod.len
  /\ dev.bytes = ctrl.head

\* C33: a push whose reservation is refused leaves head, tail, size, the watermarks,
\* the data region, records, bytes, above_hi and the notifier binding unchanged and
\* calls myring_signal on nobody's behalf; it adds one to drops, and the only other
\* fields that may differ afterwards are flags, drop_start_ns and lost_in_drop.
C33_FailedPushFrame ==
  [][ PushBegins /\ prod'.pc = "idle" =>
        /\ [ctrl' EXCEPT !.flags = 0, !.drop_start_ns = 0, !.lost_in_drop = 0]
             = [ctrl EXCEPT !.flags = 0, !.drop_start_ns = 0, !.lost_in_drop = 0]
        /\ [dev' EXCEPT !.drops = 0, !.seq_number = 0]
             = [dev EXCEPT !.drops = 0, !.seq_number = 0]
        /\ dev'.drops = dev.drops + 1
        /\ data' = data
        /\ efd' = efd
        /\ ghost'.sig = "none"
        /\ ghost'.committed = ghost.committed ]_vars

\* C33 witness: a push was refused while the level was at or above hi_pct with
\* above_hi clear and an eventfd bound, and no signal went out
C33_Witness ==
  /\ prod.pc = "idle"
  /\ ghost.burst >= 1
  /\ dev.evt /\ ~dev.above_hi
  /\ UGe(rb_pct(rb_used(ctrl), ctrl.size), ctrl.hi_pct)
  /\ ghost.sig = "none"
  /\ efd = 0

\* the sum of the lost fields of the DROP records among the first n committed
RECURSIVE LostSum(_, _)
LostSum(recs, n) ==
  IF n = 0 THEN 0
  ELSE LostSum(recs, n - 1) + (IF recs[n].type = REC_TYPE_DROP THEN recs[n].lost ELSE 0)

RECURSIVE LaidEndToEnd(_, _, _)
LaidEndToEnd(recs, n, end) ==
  IF n = 0 THEN end = 0
  ELSE /\ recs[n].pos + Len(recs[n].raw) = end
       /\ LaidEndToEnd(recs, n - 1, recs[n].pos)

\* C36: whenever no push is in progress, bytes equals head, and records is the
\* number of whole records laid end to end in [0, head).
C36_BytesMatchHead ==
  prod.pc = "idle" =>
    /\ dev.bytes = ctrl.head
    /\ dev.records = Len(ghost.committed)
    /\ LaidEndToEnd(ghost.committed, Len(ghost.committed), ctrl.head)

\* the consumer has decoded, at the cursor where tail still is, a header whose
\* record does not fit below the head it loaded, and is no longer in that iteration
BackAtRejected ==
  /\ cons.tail + cons.reclen > cons.head
  /\ cons.head # cons.tail
  /\ ctrl.tail = cons.tail
  /\ cons.pc \in {"wait", "load"}

\* C37: when the consumer has decoded a header whose record does not fit between
\* tail and head, MYRING_IOC_ADVANCE_TAIL rejects its new_tail, tail stays where
\* it was, the consumer leaves its drain loop, and it never decodes a record at
\* that cursor again.
C37_CorruptHeaderStops ==
  [][ /\ cons.pc = "advance" /\ cons' # cons /\ cons.tail + cons.reclen > ctrl.head =>
           /\ ghost'.ioc = <<"ADVANCE_TAIL", "EINVAL">>
           /\ ctrl'.tail = ctrl.tail
           /\ cons'.pc \notin {"load", "copy", "advance"}
      /\ BackAtRejected => cons'.pc # "copy" ]_vars

\* C38: with the producer idle, every iteration of the consumer's drain loop moves
\* tail forward by at least 16 bytes, and the loop is left, back to the wait on the
\* eventfd, only with tail = head.
C38_DrainTerminates ==
  [][ prod.pc = "idle" /\ cons' # cons =>
        /\ cons.pc = "advance" => ctrl'.tail >= ctrl.tail + HdrSize
        /\ cons.pc \in {"load", "copy", "advance"} /\ cons'.pc \notin {"load", "copy", "advance"} =>
             cons'.pc = "wait" /\ ctrl'.tail = ctrl'.head ]_vars

(* ------------------------------------------- the notifier and its binding *)
\* the file descriptors a caller passes to MYRING_IOC_SET_EVENTFD: none, two
\* eventfds, and a descriptor that is not an eventfd
BindFds == {-1, 1, 2, 9}
Eventfds == {1, 2}

\* the device with d->evt as a context that belongs to one eventfd: evt says
\* whether it is non-NULL, ctx whose it is
InitBind ==
  /\ ctrl = InitCtrl(RingOrder)
  /\ dev = [evt |-> FALSE, ctx |-> 0, above_hi |-> FALSE, records |-> 0, bytes |-> 0,
            drops |-> 0, seq_number |-> 0]
  /\ data = [i \in 0 .. Pow2(RingOrder) - 1 |-> 0]
  /\ efd = [fd \in Eventfds |-> 0]
  /\ now = 0
  /\ prod = InitProd
  /\ cons = InitCons
  /\ ghost = InitGhost

\* myring_signal: the counters of the eventfds after the call
myring_signal_ctx(d, counters) ==
  IF d.evt THEN [counters EXCEPT ![d.ctx] = Min(@ + 1, EfdCap)] ELSE counters

\* MYRING_IOC_SET_EVENTFD that keeps the previous context when eventfd_ctx_fdget fails
IoctlSetEventfdCtx_KeepOnError(d, fd) ==
  IF fd >= 0 /\ fd \notin Eventfds THEN <<"EBADF", d>>
  ELSE IF fd >= 0 THEN <<"OK", [d EXCEPT !.evt = TRUE, !.ctx = fd]>>
  ELSE <<"OK", [d EXCEPT !.evt = FALSE, !.ctx = 0]>>

\* MYRING_IOC_SET_EVENTFD (lines 307-316): <<ret, dev after>>
IoctlSetEventfdCtx(d, fd) ==
  LET d1 == [d EXCEPT !.evt = FALSE, !.ctx = 0]       \* eventfd_ctx_put, d->evt = NULL
  IN  IF fd >= 0
      THEN IF fd \in Eventfds                          \* eventfd_ctx_fdget
           THEN <<"OK", [d1 EXCEPT !.evt = TRUE, !.ctx = fd]>>
           ELSE <<"EBADF", d1>>
      ELSE <<"OK", d1>>

UserBind(fd) ==
  /\ LET r == IoctlSetEventfdCtx(dev, fd)
     IN  /\ dev' = r[2]
         /\ ghost' = [Quiet(ghost) EXCEPT !.ioc = <<"SET_EVENTFD", r[1], fd>>]
  /\ UNCHANGED <<ctrl, data, efd, now, prod, cons>>

\* myring_maybe_notify after the head release (line 238)
PushNotifyCtx ==
  /\ prod.pc = "notify"
  /\ LET n == myring_maybe_notify(dev, ctrl)
     IN  /\ dev' = [dev EXCEPT !.above_hi = n[1]]
         /\ efd' = IF n[2] THEN myring_signal_ctx(dev, efd) ELSE efd
         /\ ghost' = Notified(ghost, n, "push", "head")
  /\ prod' = InitProd
  /\ UNCHANGED <<ctrl, data, now, cons>>

\* MYRING_IOC_ADVANCE_TAIL and its myring_maybe_notify (lines 330-341)
UserAdvanceTailCtx(new_tail) ==
  /\ LET r == IoctlAdvanceTail(ctrl, dev, 0, new_tail)
     IN  /\ ctrl' = r.ctrl
         /\ dev' = r.dev
         /\ efd' = IF r.n[2] THEN myring_signal_ctx(dev, efd) ELSE efd
         /\ ghost' = [Notified(ghost, r.n, "advance", "tail") EXCEPT
                        !.ioc = <<"ADVANCE_TAIL", r.ret>>]
  /\ UNCHANGED <<data, now, prod, cons>>

\* myring_push_packet with the eventfd contexts told apart
myring_push_packet_ctx(lens) ==
  \/ \E len \in lens : PushBegin(len)
  \/ PushFlush
  \/ PushWrite
  \/ PushCommit
  \/ PushNotifyCtx

\* the producer against callers of SET_EVENTFD and ADVANCE_TAIL
NextBind ==
  \/ myring_push_packet_ctx(EvtPktLens)
  \/ \E fd \in BindFds : UserBind(fd)
  \/ \E t \in AdvTargets : UserAdvanceTailCtx(t)

SpecBind == InitBind /\ [][NextBind]_vars

\* the eventfd counters after a signal that goes to the context bound in d
DeliveredTo(d, counters) ==
  [fd \in Eventfds |->
     IF d.evt /\ d.ctx = fd THEN Min(counters[fd] + 1, EfdCap) ELSE counters[fd]]

\* C39: a MYRING_IOC_SET_EVENTFD with an eventfd binds that eventfd, with a negative
\* fd binds nothing, and with any other fd returns an error and leaves nothing
\* bound, whatever was bound before; it changes no counter and not above_hi.  Every
\* signal adds one to the counter of the eventfd bound at that moment and to no
\* other; with nothing bound a rising edge sets above_hi and changes no counter.
C39_BindReplaces ==
  [][ /\ ghost'.ioc[1] = "SET_EVENTFD" =>
           LET fd == ghost'.ioc[3]
           IN  /\ fd \in Eventfds => ghost'.ioc[2] = "OK" /\ dev'.evt /\ dev'.ctx = fd
               /\ fd < 0 => ghost'.ioc[2] = "OK" /\ ~dev'.evt /\ dev'.ctx = 0
               /\ fd >= 0 /\ fd \notin Eventfds =>
                    ghost'.ioc[2] # "OK" /\ ~dev'.evt /\ dev'.ctx = 0
               /\ efd' = efd /\ ctrl' = ctrl
               /\ dev'.above_hi = dev.above_hi
      /\ ghost'.ioc[1] # "SET_EVENTFD" => dev'.evt = dev.evt /\ dev'.ctx = dev.ctx
      /\ ~dev.above_hi /\ dev'.above_hi => ghost'.sig # "none"
      /\ IF ghost'.sig # "none"
         THEN efd' = DeliveredTo(dev, efd) /\ dev'.above_hi
         ELSE efd' = efd ]_vars

\* C39 witness: the first eventfd was signalled, the second was bound in its place
\* and has been signalled by a later rising edge, the first one no more
C39_Witness ==
  /\ dev.evt /\ dev.ctx = 2
  /\ efd[1] = 1
  /\ efd[2] = 1
  /\ ghost.sig = "push"

\* the descriptors the caller of SET_EVENTFD passes when RESET callers are about
RstBindFds == {-1, 1}

\* the producer against callers of SET_EVENTFD, ADVANCE_TAIL and RESET
NextRstBind ==
  \/ myring_push_packet_ctx(EvtPktLens)
  \/ \E fd \in RstBindFds : UserBind(fd)
  \/ \E t \in AdvTargets : UserAdvanceTailCtx(t)
  \/ UserReset

SpecRstBind == InitBind /\ [][NextRstBind]_vars

\* C40: MYRING_IOC_RESET leaves size, hi_pct, lo_pct, the bound eventfd and its
\* counter unchanged and clears above_hi; size is S in every reachable state; and a
\* push that finds above_hi clear and the level at or above hi_pct after its head
\* release sets above_hi and signals the bound eventfd.
C40_ResetFrame ==
  [][ /\ ghost'.ioc[1] = "RESET" =>
           /\ ctrl'.size = ctrl.size
           /\ ctrl'.hi_pct = ctrl.hi_pct /\ ctrl'.lo_pct = ctrl.lo_pct
           /\ dev'.evt = dev.evt /\ dev'.ctx = dev.ctx
           /\ efd' = efd
           /\ ~dev'.above_hi
      /\ ctrl.size = Pow2(RingOrder) /\ ctrl'.size = Pow2(RingOrder)
      /\ prod.pc = "notify" /\ prod'.pc = "idle" /\ ~dev.above_hi
           /\ UGe(Pct(ctrl), ctrl.hi_pct) =>
           /\ dev'.above_hi
           /\ ghost'.sig = "push"
           /\ efd' = DeliveredTo(dev, efd) ]_vars

\* C40 witness: the level had crossed hi_pct and been signalled once, a RESET
\* followed (the counters restarted), and the first push after it has crossed
\* hi_pct and signalled the same eventfd a second time
C40_Witness ==
  /\ ghost.sig = "push"
  /\ dev.evt /\ dev.ctx = 1
  /\ efd[1] = 2
  /\ dev.records = 1 /\ dev.bytes = ctrl.head /\ dev.drops = 0
  /\ dev.seq_number = 2
  /\ ctrl.tail = 0

(* ------------------------- myring_maybe_notify, statement by statement *)
\* which branch of myring_maybe_notify the loads and the test of lines 121-124 and
\* 130 select
NotifyBranch(d, c) ==
  LET n == myring_maybe_notify(d, c)
  IN  IF n[2] THEN "rise" ELSE IF n[3] THEN "fall" ELSE "none"

\* the producer's myring_maybe_notify (line 238), up to the branch taken; it runs
\* without ioctl_mu
PushNotifyEval ==
  /\ prod.pc = "notify"
  /\ LET b == NotifyBranch(dev, ctrl)
     IN  prod' = IF b = "none" THEN InitProd ELSE [prod EXCEPT !.pc = b]
  /\ ghost' = Quiet(ghost)
  /\ UNCHANGED <<ctrl, dev, data, efd, now, cons>>

\* the stores of the branch: above_hi = true and myring_signal (lines 125-129), or
\* above_hi = false (line 131)
PushNotifyApply ==
  /\ prod.pc \in {"rise", "fall"}
  /\ dev' = [dev EXCEPT !.above_hi = (prod.pc = "rise")]
  /\ efd' = IF prod.pc = "rise" THEN myring_signal(dev, efd) ELSE efd
  /\ ghost' = Notified(ghost, <<prod.pc = "rise", prod.pc = "rise", prod.pc = "fall">>,
                       "push", "head")
  /\ prod' = InitProd
  /\ UNCHANGED <<ctrl, data, now, cons>>

\* MYRING_IOC_ADVANCE_TAIL up to the tail release (lines 330-338)
AdvanceStore(new_tail) ==
  /\ cons.pc = "start"
  /\ IF UGt(new_tail, ctrl.head) \/ ULt(new_tail, ctrl.tail)
     THEN /\ UNCHANGED <<ctrl, cons>>
          /\ ghost' = [Quiet(ghost) EXCEPT !.ioc = <<"ADVANCE_TAIL", "EINVAL">>]
     ELSE /\ ctrl' = [ctrl EXCEPT !.tail = new_tail]
          /\ cons' = [cons EXCEPT !.pc = "ioc_notify"]
          /\ ghost' = Quiet(ghost)
  /\ UNCHANGED <<dev, data, efd, now, prod>>

\* its myring_maybe_notify (line 339), up to the branch taken
AdvanceNotifyEval ==
  /\ cons.pc = "ioc_notify"
  /\ LET b == NotifyBranch(dev, ctrl)
     IN  IF b = "none"
         THEN /\ cons' = [cons EXCEPT !.pc = "start"]
              /\ ghost' = [Quiet(ghost) EXCEPT !.ioc = <<"ADVANCE_TAIL", "OK">>]
         ELSE /\ cons' = [cons EXCEPT !.pc = b]
              /\ ghost' = Quiet(ghost)
  /\ UNCHANGED <<ctrl, dev, data, efd, now, prod>>

\* the stores of that branch, and the return of the ioctl
AdvanceNotifyApply ==
  /\ cons.pc \in {"rise", "fall"}
  /\ dev' = [dev EXCEPT !.above_hi = (cons.pc = "rise")]
  /\ efd' = IF cons.pc = "rise" THEN myring_signal(dev, efd) ELSE efd
  /\ ghost' = [Notified(ghost, <<cons.pc = "rise", cons.pc = "rise", cons.pc = "fall">>,
                        "advance", "tail") EXCEPT !.ioc = <<"ADVANCE_TAIL", "OK">>]
  /\ cons' = [cons EXCEPT !.pc = "start"]
  /\ UNCHANGED <<ctrl, data, now, prod>>

\* the producer and one caller of MYRING_IOC_ADVANCE_TAIL, interleaved statement
\* by statement inside myring_maybe_notify
NextRace ==
  \/ \E len \in EvtPktLens : PushBegin(len)
  \/ PushFlush
  \/ PushWrite
  \/ PushCommit
  \/ PushNotifyEval
  \/ PushNotifyApply
  \/ \E t \in AdvTargets : AdvanceStore(t)
  \/ AdvanceNotifyEval
  \/ AdvanceNotifyApply

SpecRace == Init /\ [][NextRace]_vars

\* C34: with the producer's and the ioctl's myring_maybe_notify interleaved, every
\* call of myring_signal comes with a change of above_hi from false to true, and
\* once both have returned above_hi is what one more evaluation would leave it.
C34_NotifyRace ==
  [][ /\ ghost'.sig # "none" => ~dev.above_hi /\ dev'.above_hi
      /\ prod'.pc = "idle" /\ cons'.pc = "start" =>
           NotifyBranch(dev', ctrl') = "none" ]_vars

====
